---------------------------- MODULE Spec2Model ----------------------------
(***************************************************************************)
(* The trading decision and risk engine of trading_bot.py and              *)
(* risk_management.py as a state machine.                                  *)
(*                                                                         *)
(* Two coroutines share the engine: the scheduler started by               *)
(* TradingBot.start and the shutdown TradingBot.stop.  asyncio runs them   *)
(* cooperatively, so every action below is the code between two awaits of  *)
(* one coroutine, and the other coroutine can run only at an await.  The   *)
(* one exception is the handling of the opportunities of a symbol, which   *)
(* is split in one action per opportunity (pc = "opps"); the shutdown      *)
(* coroutine is not scheduled there, because the code does not await       *)
(* there.                                                                  *)
(*                                                                         *)
(* Units.  Python floats are modelled by exact integers: prices in ticks,  *)
(* position sizes in thousandths (200 = 0.2), fractions of a price in      *)
(* thousandths (20 = 0.02), volatility in hundredths (30 = 0.3), risk in   *)
(* millionths (60000 = 0.06).  The prices of the model are multiples of    *)
(* 500 ticks, for which every product and quotient below is exact.         *)
(*                                                                         *)
(* Collaborators.  Strategy analysis, market data and the order gateway    *)
(* are outside the engine: each call returns any value of a small set or   *)
(* raises.  prepare_trade_parameters is modelled by both of its outcomes,  *)
(* the exception and the record of its return statement (see               *)
(* PrepareOutcomes).                                                       *)
(***************************************************************************)
EXTENDS Integers, Sequences, FiniteSets, TLC

----------------------------------------------------------------------------
(* config.py *)

BTCUSDT == [base |-> "BTC", quote |-> "USDT"]
ETHUSDT == [base |-> "ETH", quote |-> "USDT"]
BTCEUR  == [base |-> "BTC", quote |-> "EUR"]

\* config.py:12 lists the first two pairs and invites more; the third one
\* shares its base asset with the first.
TRADING_SYMBOLS == << BTCUSDT, ETHUSDT, BTCEUR >>

\* config.py:23 sets 5; the cap is scaled down with the symbol list so that
\* the list is longer than the cap and the cap is reached.
MAX_CONCURRENT_TRADES == 2

MAX_POSITION_SIZE == 200
STOP_LOSS_PERCENTAGE == 20
TAKE_PROFIT_PERCENTAGE == 40

\* RiskManager.__init__
max_risk_per_trade == 20000
max_total_risk == 60000

\* trading_bot.py:278, the portfolio value handed to start
InitialPortfolio == 100000

----------------------------------------------------------------------------
(* Values the collaborators deliver *)

NoSymbol == [base |-> "", quote |-> ""]
Symbols == {TRADING_SYMBOLS[k] : k \in 1..Len(TRADING_SYMBOLS)}

Directions == {"long", "short"}
\* last_price of get_real_time_data, and the ones at which the model opens
Prices == {9500, 10000, 10500}
EntryPrices == {10000}
Vols == {20}
Sizes == {100, 3000}

\* signals['trend']['overall']: the values analyze_trend produces and the
\* values validate_technical_trade compares them with
TrendValues == {"bullish", "bearish", "long", "short"}

Categories == << "vertical_spreads", "iron_condors", "calendar_spreads" >>

\* longest candidate list of one spread category
MaxCandidates == 1

\* most non-empty candidates of one options analysis
MaxSpreads == 1

Abs(x) == IF x < 0 THEN -x ELSE x


RECURSIVE SumSeq(_)
SumSeq(q) == IF q = << >> THEN 0 ELSE Head(q) + SumSeq(Tail(q))

----------------------------------------------------------------------------
(* Python dict, insertion ordered: active_trades is the sequence of its     *)
(* values in insertion order, each value carrying its key (symbol).         *)

Keys(d) == {d[k].symbol : k \in 1..Len(d)}

DictGet(d, s) == CHOOSE p \in {d[k] : k \in 1..Len(d)} : p.symbol = s

\* d[p.symbol] = p: an existing key keeps its place, a new key goes last
DictSet(d, p) ==
    IF p.symbol \in Keys(d)
    THEN [k \in 1..Len(d) |-> IF d[k].symbol = p.symbol THEN p ELSE d[k]]
    ELSE Append(d, p)

\* del d[s], for a key that is present
DictDel(d, s) == SelectSeq(d, LAMBDA p : p.symbol # s)

----------------------------------------------------------------------------
(* risk_management.py *)

calculate_trade_risk(trade) ==
    (Abs(trade.entry_price - trade.stop_loss) * trade.position_size * 1000)
        \div trade.entry_price

\* what a call returns or raises
Returns(value) == [raised |-> "none", value |-> value]
Raises(exception) == [raised |-> exception, value |-> 0]

\* calculate_position_size, lines 13-29, with the prices in hundredths: the
\* size in thousandths; the division of line 21 raises for a price risk of 0
calculate_position_size(capital, entry_price, stop_loss, volatility) ==
    LET risk_amount == capital * (max_risk_per_trade \div 1000)
        price_risk == Abs(entry_price - stop_loss)
        position_size == (risk_amount * 100) \div price_risk
        adjusted == IF volatility > 30 THEN (position_size * 7) \div 10
                    ELSE position_size
        max_position == capital * MAX_POSITION_SIZE
    IN  IF price_risk = 0 THEN Raises("ZeroDivisionError")
        ELSE Returns(IF adjusted < max_position THEN adjusted ELSE max_position)

\* a call of calculate_position_size with the positional arguments args: the
\* method has four parameters without defaults
call_calculate_position_size(args) ==
    IF Len(args) # 4 THEN Raises("TypeError")
    ELSE calculate_position_size(args[1], args[2], args[3], args[4])

are_correlated(symbol1, symbol2) == symbol1.base = symbol2.base

check_position_correlation(new_trade, current_positions) ==
    LET correlated_exposure ==
            SumSeq([k \in 1..Len(current_positions) |->
                      IF are_correlated(new_trade.symbol, current_positions[k].symbol)
                      THEN current_positions[k].position_size ELSE 0])
    IN  correlated_exposure < 150

RECURSIVE SumSizes(_, _)
SumSizes(ps, S) ==
    IF S = {} THEN 0
    ELSE LET s == CHOOSE x \in S : TRUE
         IN  ps[s].position_size + SumSizes(ps, S \ {s})

check_max_exposure(trade, portfolio_value_, ps) ==
    LET total_exposure ==
            trade.position_size
              + SumSizes(ps, {s \in DOMAIN ps : ps[s].symbol = trade.symbol})
    IN  total_exposure <= MAX_POSITION_SIZE

validate_trade(trade, portfolio_value_, current_positions, ps, risk) ==
    IF risk + calculate_trade_risk(trade) > max_total_risk THEN FALSE
    ELSE IF ~check_position_correlation(trade, current_positions) THEN FALSE
    ELSE IF ~check_max_exposure(trade, portfolio_value_, ps) THEN FALSE
    ELSE TRUE

\* calculate_stop_loss with the two directions exchanged
calculate_stop_loss_mirrored(entry_price, direction, volatility) ==
    LET base_stop == IF volatility > 30 THEN (STOP_LOSS_PERCENTAGE * 15) \div 10
                     ELSE IF volatility < 10 THEN (STOP_LOSS_PERCENTAGE * 8) \div 10
                     ELSE STOP_LOSS_PERCENTAGE
    IN  IF direction = "long"
        THEN (entry_price * (1000 + base_stop)) \div 1000
        ELSE (entry_price * (1000 - base_stop)) \div 1000

calculate_stop_loss(entry_price, direction, volatility) ==
    LET base_stop == IF volatility > 30 THEN (STOP_LOSS_PERCENTAGE * 15) \div 10
                     ELSE IF volatility < 10 THEN (STOP_LOSS_PERCENTAGE * 8) \div 10
                     ELSE STOP_LOSS_PERCENTAGE
    IN  IF direction = "long"
        THEN (entry_price * (1000 - base_stop)) \div 1000
        ELSE (entry_price * (1000 + base_stop)) \div 1000

\* calculate_take_profit with the tier tests written >= and <=
calculate_take_profit_inclusive(entry_price, direction, volatility) ==
    LET base_tp == IF volatility >= 30 THEN (TAKE_PROFIT_PERCENTAGE * 13) \div 10
                   ELSE IF volatility <= 10 THEN (TAKE_PROFIT_PERCENTAGE * 9) \div 10
                   ELSE TAKE_PROFIT_PERCENTAGE
    IN  IF direction = "long"
        THEN (entry_price * (1000 + base_tp)) \div 1000
        ELSE (entry_price * (1000 - base_tp)) \div 1000

calculate_take_profit(entry_price, direction, volatility) ==
    LET base_tp == IF volatility > 30 THEN (TAKE_PROFIT_PERCENTAGE * 13) \div 10
                   ELSE IF volatility < 10 THEN (TAKE_PROFIT_PERCENTAGE * 9) \div 10
                   ELSE TAKE_PROFIT_PERCENTAGE
    IN  IF direction = "long"
        THEN (entry_price * (1000 + base_tp)) \div 1000
        ELSE (entry_price * (1000 - base_tp)) \div 1000

\* update_position with action 'open': the new (positions, total_risk)
update_position_open(trade, ps, risk) ==
    [positions  |-> [s \in DOMAIN ps \cup {trade.symbol} |->
                        IF s = trade.symbol THEN trade ELSE ps[s]],
     total_risk |-> risk + calculate_trade_risk(trade)]

\* a close that forgets the risk of the position it removes
update_position_close_keeps_risk(symbol, ps, risk) ==
    IF symbol \in DOMAIN ps
    THEN [positions  |-> [s \in DOMAIN ps \ {symbol} |-> ps[s]],
          total_risk |-> risk]
    ELSE [positions |-> ps, total_risk |-> risk]

\* update_position with action 'close': the new (positions, total_risk)
update_position_close(symbol, ps, risk) ==
    IF symbol \in DOMAIN ps
    THEN [positions  |-> [s \in DOMAIN ps \ {symbol} |-> ps[s]],
          total_risk |-> risk - calculate_trade_risk(ps[symbol])]
    ELSE [positions |-> ps, total_risk |-> risk]

RECURSIVE SumRisk(_, _)
\* the sum of calculate_trade_risk over the values of RiskManager.positions
SumRisk(ps, S) ==
    IF S = {} THEN 0
    ELSE LET s == CHOOSE x \in S : TRUE
         IN  calculate_trade_risk(ps[s]) + SumRisk(ps, S \ {s})

\* the sum of calculate_trade_risk over the values of active_trades
SumRiskTrades(d) == SumSeq([k \in 1..Len(d) |-> calculate_trade_risk(d[k])])

----------------------------------------------------------------------------
(* trading_bot.py: state *)

VARIABLES
    pc,              \* where the scheduler coroutine (start) is suspended
    i,               \* trading_loop: index of the symbol of the for loop
    opps,            \* trading_loop: the opportunities not yet handled
    tp,              \* execute_trade: << trade_params >> of the open in flight
    sweep,           \* manage_positions: the rest of its snapshot, current first
    price,           \* close_position: current_price of the close in flight
    is_running,
    portfolio_value,
    active_trades,   \* TradingBot.active_trades
    positions,       \* RiskManager.positions
    total_risk,      \* RiskManager.total_risk
    spc,             \* where the shutdown coroutine (stop) is suspended
    ssweep,          \* stop: the rest of its snapshot, current first
    ev,              \* history: the last step either coroutine took
    cycle_held,      \* history: symbols held when a cycle began at the cap
    swept,           \* history: symbols whose exit condition this cycle evaluated
    drain,           \* history: the drain of stop so far: "none" (no stop yet),
                     \* "empty" (no position to close), "clean" (no price fetch
                     \* and no close of it failed) or "failed"
    calc             \* the last call of a pure function made on its own (see
                     \* CalcSpec): its arguments and what it returned

vars == << pc, i, opps, tp, sweep, price, is_running, portfolio_value,
           active_trades, positions, total_risk, spc, ssweep,
           ev, cycle_held, swept, drain, calc >>

\* the variables of the engine, all but calc
engine == << pc, i, opps, tp, sweep, price, is_running, portfolio_value,
             active_trades, positions, total_risk, spc, ssweep,
             ev, cycle_held, swept, drain >>

loopLocals == << i, opps, tp, sweep, price >>
ledger == << active_trades, positions, total_risk >>
stopVars == << spc, ssweep >>
drainHist == << drain >>
cycleHist == << cycle_held, swept >>

Event(kind) == kind

\* no pure function has been called on its own
NoCall == [op |-> "none"]

Init ==
    /\ calc = NoCall
    /\ pc = "idle"
    /\ i = 0
    /\ opps = << >>
    /\ tp = << >>
    /\ sweep = << >>
    /\ price = 0
    /\ is_running = FALSE
    /\ portfolio_value = 0
    /\ active_trades = << >>
    /\ positions = << >>
    /\ total_risk = 0
    /\ spc = "none"
    /\ ssweep = << >>
    /\ ev = Event("none")
    /\ cycle_held = {}
    /\ swept = {}
    /\ drain = "none"

----------------------------------------------------------------------------
(* trading_bot.py: control flow of start / trading_loop / manage_positions  *)

Ctl(p, k, os, sw) == [pc |-> p, i |-> k, opps |-> os, sweep |-> sw]

\* trading_loop returned (47-48 break, or the for loop ended) or raised
\* (40-42): start awaits asyncio.sleep(60)
Sleeping == Ctl("sleep", 0, << >>, << >>)

\* the cap test written > instead of >=
ForSymbolOffByOne(k, d) ==
    IF k > Len(TRADING_SYMBOLS) THEN Sleeping
    ELSE IF Len(d) > MAX_CONCURRENT_TRADES THEN Sleeping
    ELSE Ctl("analyze", k, << >>, << >>)

\* lines 46-52: the for loop reaches symbol k with the ledger d
ForSymbol(k, d) ==
    IF k > Len(TRADING_SYMBOLS) THEN Sleeping
    ELSE IF Len(d) >= MAX_CONCURRENT_TRADES THEN Sleeping
    ELSE Ctl("analyze", k, << >>, << >>)

\* a sweep whose end starts the for loop again at the first symbol
SweepFromRestarts(k, rest, d) ==
    IF rest = << >> THEN ForSymbol(1, d)
    ELSE Ctl("price", k, << >>, rest)

\* lines 204-206: manage_positions goes on with the rest of its snapshot
SweepFrom(k, rest, d) ==
    IF rest = << >> THEN ForSymbol(k + 1, d)
    ELSE Ctl("price", k, << >>, rest)

\* line 66 and 204: manage_positions snapshots list(active_trades.items())
manage_positions(k, d) == SweepFrom(k, d, d)

\* lines 61-66: the for loop over the opportunities goes on with os
OppsFrom(k, os, d) ==
    IF os = << >> THEN manage_positions(k, d)
    ELSE Ctl("opps", k, os, << >>)

\* line 36: the while test, and the first symbol of a new cycle
WhileTop(running, d) ==
    IF running THEN ForSymbol(1, d)
    ELSE Ctl("done", 0, << >>, << >>)

Goto(c) ==
    /\ pc' = c.pc
    /\ i' = c.i
    /\ opps' = c.opps
    /\ sweep' = c.sweep

\* the exit condition of the position of symbol s is evaluated (kept for the
\* cycles that began at the cap)
Evaluated(s) == IF cycle_held # {} THEN swept \cup {s} ELSE swept

\* a cycle begins with the ledger d
CycleBegins(d) ==
    /\ cycle_held' = IF Len(d) >= MAX_CONCURRENT_TRADES THEN Keys(d) ELSE {}
    /\ swept' = {}

----------------------------------------------------------------------------
(* trading_bot.py: pure parts *)

\* technical_analysis as identify_opportunities and validate_technical_trade
\* read it: ['symbol'], ['signals']['entry'] ("missing": the key is absent,
\* as in the dict generate_signals builds), ['signals']['strength'],
\* ['signals']['trend']['overall']
TechnicalPayloads(sym) ==
    [symbol : {sym}, entry : {"missing", "none", "long", "short"},
     strength : {"strong", "weak"}, overall : TrendValues]

\* a candidate spread is a dict; "empty" is a falsy one
CandidateSeqs ==
    UNION {[1..n -> {"empty", "spread"}] : n \in 0..MaxCandidates}

\* options_analysis: spread category -> candidates
Spreads(cands) == Len(SelectSeq(cands, LAMBDA c : c # "empty"))

OptionsPayloads ==
    {o \in [1..Len(Categories) -> CandidateSeqs] :
        SumSeq([c \in 1..Len(Categories) |-> Spreads(o[c])]) <= MaxSpreads}

TechnicalOpp(t) ==
    [type |-> "technical", symbol |-> t.symbol, direction |-> t.entry,
     strength |-> t.strength, overall |-> t.overall, strategy |-> "none"]

OptionsOpp(sym, category) ==
    [type |-> "options", symbol |-> sym, direction |-> "missing",
     strength |-> "none", overall |-> "none", strategy |-> category]

\* lines 85-93 for one category
CategoryOpps(sym, category, cands) ==
    LET kept == SelectSeq(cands, LAMBDA c : c # "empty")
    IN  [k \in 1..Len(kept) |-> OptionsOpp(sym, category)]

RECURSIVE OptionsOpps(_, _, _)
OptionsOpps(sym, o, c) ==
    IF c > Len(Categories) THEN << >>
    ELSE CategoryOpps(sym, Categories[c], o[c]) \o OptionsOpps(sym, o, c + 1)

\* identify_opportunities appending the technical opportunity last
identify_opportunities_options_first(t, o) ==
    OptionsOpps(t.symbol, o, 1)
        \o (IF t.entry # "none" THEN << TechnicalOpp(t) >> ELSE << >>)

\* identify_opportunities, for a payload whose 'entry' key is present
identify_opportunities(t, o) ==
    (IF t.entry # "none" THEN << TechnicalOpp(t) >> ELSE << >>)
        \o OptionsOpps(t.symbol, o, 1)

\* prepare_trade_parameters, lines 191-200 (the timestamp is left out).  An
\* options opportunity has no 'direction' (88-93), get_real_time_data is a
\* coroutine function that 168 does not await, its dict has no 'volatility'
\* and 172-176 passes three of the four arguments of calculate_position_size:
\* as written each of these raises.  The model keeps that outcome (the
\* PrepareRaises actions) and, next to it, the records the return statement
\* builds when the collaborators supply a direction, a price, a volatility
\* and a size.
PrepareOutcomes(opp) ==
    {[symbol        |-> opp.symbol,
      type          |-> opp.type,
      direction     |-> d,
      entry_price   |-> e,
      position_size |-> z,
      stop_loss     |-> calculate_stop_loss(e, d, v),
      take_profit   |-> calculate_take_profit(e, d, v)] :
        d \in (IF opp.type = "technical" THEN {opp.direction} ELSE Directions),
        e \in EntryPrices, v \in Vols, z \in Sizes}

\* check_exit_conditions without its else branch: every position as a long
check_exit_conditions_as_long(position, current_price) ==
    current_price <= position.stop_loss \/ current_price >= position.take_profit

check_exit_conditions(position, current_price) ==
    IF position.direction = "long"
    THEN current_price <= position.stop_loss \/ current_price >= position.take_profit
    ELSE current_price >= position.stop_loss \/ current_price <= position.take_profit

\* calculate_pnl without its else branch: every position as a long
calculate_pnl_as_long(position, exit_price) ==
    (exit_price - position.entry_price) * position.position_size

calculate_pnl(position, exit_price) ==
    IF position.direction = "long"
    THEN (exit_price - position.entry_price) * position.position_size
    ELSE (position.entry_price - exit_price) * position.position_size

\* validate_opportunity without its first test
never_in_position(opp, d) == FALSE

\* validate_opportunity, line 100
already_in_position(opp, d) == opp.symbol \in Keys(d)

\* validate_technical_trade, lines 116-121: the checks before risk management
technical_gate(opp) ==
    /\ opp.strength = "strong"
    /\ opp.overall = opp.direction

\* validate_options_trade, lines 131-137
validate_options_trade(opp) == TRUE

\* validate_technical_trade, with q the record its prepare_trade_parameters
\* call (line 124) delivered
validate_technical_trade(opp, q, pv, d, ps, risk) ==
    IF ~technical_gate(opp) THEN FALSE
    ELSE validate_trade(q, pv, d, ps, risk)

validate_opportunity(opp, q, pv, d, ps, risk) ==
    IF already_in_position(opp, d) THEN FALSE
    ELSE IF opp.type = "technical" THEN validate_technical_trade(opp, q, pv, d, ps, risk)
    ELSE IF opp.type = "options" THEN validate_options_trade(opp)
    ELSE FALSE

\* line 124 is reached: the opportunity is technical and passed 100-121
ReachesPrepare(opp, d) ==
    /\ ~already_in_position(opp, d)
    /\ opp.type = "technical"
    /\ technical_gate(opp)

\* The order gateway, execute_technical_trade / execute_options_trade: the
\* methods are called (147, 149, 231, 237) and defined nowhere; they
\* acknowledge the order or raise.
GatewayOutcomes == {"ack", "fail"}

\* close_position after the gateway acknowledged, lines 243-253: the new
\* ledger, and whether 252-253 logged a P&L (del raises KeyError otherwise)
close_position_ack(position, d, ps, risk) ==
    LET symbol == position.symbol
        upd == update_position_close(symbol, ps, risk)
    IN  [active_trades |-> IF symbol \in Keys(d) THEN DictDel(d, symbol) ELSE d,
         positions     |-> upd.positions,
         total_risk    |-> upd.total_risk,
         logged        |-> symbol \in Keys(d)]

\* execute_trade that writes active_trades and leaves the risk manager alone
execute_trade_ack_ledger_only(trade_params, d, ps, risk) ==
    [active_trades |-> DictSet(d, trade_params),
     positions     |-> ps,
     total_risk    |-> risk]

\* execute_trade after the gateway acknowledged, lines 152-156
execute_trade_ack(trade_params, d, ps, risk) ==
    LET upd == update_position_open(trade_params, ps, risk)
    IN  [active_trades |-> DictSet(d, trade_params),
         positions     |-> upd.positions,
         total_risk    |-> upd.total_risk]

----------------------------------------------------------------------------
(* The scheduler coroutine *)

\* start, lines 30-36, up to the first await
Start ==
    /\ pc = "idle"
    /\ is_running' = TRUE
    /\ portfolio_value' = InitialPortfolio
    /\ Goto(WhileTop(TRUE, active_trades))
    /\ CycleBegins(active_trades)
    /\ ev' = Event("start")
    /\ UNCHANGED calc
    /\ UNCHANGED << tp, price, ledger, stopVars, drainHist >>

\* start without its except clause: the exception ends the loop
AnalysisFailsFatal ==
    /\ pc = "analyze"
    /\ Goto(Ctl("done", 0, << >>, << >>))
    /\ ev' = Event("analysis_fail")
    /\ UNCHANGED calc
    /\ UNCHANGED << tp, price, is_running, portfolio_value, ledger, stopVars,
                    drainHist, cycleHist >>

\* lines 51-52: an analysis raises; 40-42 catch it
AnalysisFails ==
    /\ pc = "analyze"
    /\ Goto(Sleeping)
    /\ ev' = Event("analysis_fail")
    /\ UNCHANGED calc
    /\ UNCHANGED << tp, price, is_running, portfolio_value, ledger, stopVars,
                    drainHist, cycleHist >>

\* line 75: the technical payload has no 'entry'; KeyError, caught at 40-42
IdentifyRaises ==
    /\ pc = "analyze"
    /\ \E t \in TechnicalPayloads(TRADING_SYMBOLS[i]) : t.entry = "missing"
    /\ Goto(Sleeping)
    /\ ev' = Event("identify_raise")
    /\ UNCHANGED calc
    /\ UNCHANGED << tp, price, is_running, portfolio_value, ledger, stopVars,
                    drainHist, cycleHist >>

\* the lists identify_opportunities returns for the analyses of symbol k
Identified ==
    [k \in 1..Len(TRADING_SYMBOLS) |->
        {identify_opportunities(t, o) :
            t \in {x \in TechnicalPayloads(TRADING_SYMBOLS[k]) : x.entry # "missing"},
            o \in OptionsPayloads}]

\* lines 51-58: both analyses return and identify_opportunities lists them
AnalysisReturns ==
    /\ pc = "analyze"
    /\ \E os \in Identified[i] : Goto(OppsFrom(i, os, active_trades))
    /\ ev' = Event("analysed")
    /\ UNCHANGED calc
    /\ UNCHANGED << tp, price, is_running, portfolio_value, ledger, stopVars,
                    drainHist, cycleHist >>

\* the trade sent to the gateway although validate_opportunity returned False
RejectOpportunityStillOpens ==
    /\ pc = "opps"
    /\ LET opp == Head(opps) IN
          /\ \E q \in PrepareOutcomes(opp) :
                /\ ~validate_opportunity(opp, q, portfolio_value, active_trades,
                                         positions, total_risk)
                /\ tp' = << q >>
          /\ pc' = "open"
          /\ opps' = Tail(opps)
          /\ ev' = Event("reject")
          /\ UNCHANGED calc
    /\ UNCHANGED << i, sweep, price, is_running, portfolio_value, ledger,
                    stopVars, drainHist, cycleHist >>

\* line 62: validate_opportunity returns False
RejectOpportunity ==
    /\ pc = "opps"
    /\ LET opp == Head(opps) IN
          /\ \E q \in PrepareOutcomes(opp) :
                ~validate_opportunity(opp, q, portfolio_value, active_trades,
                                      positions, total_risk)
          /\ Goto(OppsFrom(i, Tail(opps), active_trades))
          /\ ev' = Event("reject")
          /\ UNCHANGED calc
    /\ UNCHANGED << tp, price, is_running, portfolio_value, ledger, stopVars,
                    drainHist, cycleHist >>

\* line 124: prepare_trade_parameters raises inside validate_technical_trade;
\* nothing catches it before 40-42
ValidatePrepareRaises ==
    /\ pc = "opps"
    /\ ReachesPrepare(Head(opps), active_trades)
    /\ Goto(Sleeping)
    /\ ev' = Event("validate_raise")
    /\ UNCHANGED calc
    /\ UNCHANGED << tp, price, is_running, portfolio_value, ledger, stopVars,
                    drainHist, cycleHist >>

\* lines 62-63 and 143: validated, then prepare_trade_parameters raises in
\* execute_trade; 160-161 catch it
ExecutePrepareRaises ==
    /\ pc = "opps"
    /\ LET opp == Head(opps) IN
          /\ \E q \in PrepareOutcomes(opp) :
                validate_opportunity(opp, q, portfolio_value, active_trades,
                                     positions, total_risk)
          /\ Goto(OppsFrom(i, Tail(opps), active_trades))
          /\ ev' = Event("prepare_fail")
          /\ UNCHANGED calc
    /\ UNCHANGED << tp, price, is_running, portfolio_value, ledger, stopVars,
                    drainHist, cycleHist >>

\* lines 62-63 and 143-149: validated with one prepared record, the trade
\* is prepared again and sent to the gateway
RequestOpen ==
    /\ pc = "opps"
    /\ LET opp == Head(opps) IN
          /\ \E q \in PrepareOutcomes(opp) :
                validate_opportunity(opp, q, portfolio_value, active_trades,
                                     positions, total_risk)
          /\ \E p \in PrepareOutcomes(opp) : tp' = << p >>
          /\ pc' = "open"
          /\ opps' = Tail(opps)
          /\ ev' = Event("open_req")
          /\ UNCHANGED calc
    /\ UNCHANGED << i, sweep, price, is_running, portfolio_value, ledger,
                    stopVars, drainHist, cycleHist >>

\* lines 152-158: the gateway acknowledged the open
GatewayOpenAck ==
    /\ pc = "open"
    /\ "ack" \in GatewayOutcomes
    /\ LET r == execute_trade_ack(tp[1], active_trades, positions, total_risk) IN
          /\ active_trades' = r.active_trades
          /\ positions' = r.positions
          /\ total_risk' = r.total_risk
          /\ Goto(OppsFrom(i, opps, r.active_trades))
    /\ tp' = << >>
    /\ ev' = Event("open_ack")
    /\ UNCHANGED calc
    /\ UNCHANGED << price, is_running, portfolio_value, stopVars, drainHist,
                    cycleHist >>

\* execute_trade recording the trade before the gateway answered
GatewayOpenFailsRecorded ==
    /\ pc = "open"
    /\ "fail" \in GatewayOutcomes
    /\ active_trades' = DictSet(active_trades, tp[1])
    /\ Goto(OppsFrom(i, opps, active_trades'))
    /\ tp' = << >>
    /\ ev' = Event("open_fail")
    /\ UNCHANGED calc
    /\ UNCHANGED << price, is_running, portfolio_value, positions, total_risk,
                    stopVars, drainHist, cycleHist >>

\* lines 147/149 raise; 160-161 catch it
GatewayOpenFails ==
    /\ pc = "open"
    /\ "fail" \in GatewayOutcomes
    /\ Goto(OppsFrom(i, opps, active_trades))
    /\ tp' = << >>
    /\ ev' = Event("open_fail")
    /\ UNCHANGED calc
    /\ UNCHANGED << price, is_running, portfolio_value, ledger, stopVars,
                    drainHist, cycleHist >>

\* manage_positions with its try around the loop: the sweep is abandoned
SweepPriceFailsAborts ==
    /\ pc = "price"
    /\ Goto(ForSymbol(i + 1, active_trades))
    /\ ev' = Event("price_fail")
    /\ UNCHANGED calc
    /\ UNCHANGED << tp, price, is_running, portfolio_value, ledger, stopVars,
                    drainHist, cycleHist >>

\* line 206 raises; 212-213 catch it
SweepPriceFails ==
    /\ pc = "price"
    /\ Goto(SweepFrom(i, Tail(sweep), active_trades))
    /\ ev' = Event("price_fail")
    /\ UNCHANGED calc
    /\ UNCHANGED << tp, price, is_running, portfolio_value, ledger, stopVars,
                    drainHist, cycleHist >>

\* a sweep that moves the stop of a position it holds to the fetched price
SweepHoldsTrailsStop ==
    /\ pc = "price"
    /\ \E p \in Prices :
          /\ ~check_exit_conditions(Head(sweep), p)
          /\ active_trades' =
                [k \in 1..Len(active_trades) |->
                    IF active_trades[k].symbol = Head(sweep).symbol
                    THEN [active_trades[k] EXCEPT !.stop_loss = p]
                    ELSE active_trades[k]]
    /\ Goto(SweepFrom(i, Tail(sweep), active_trades))
    /\ swept' = Evaluated(Head(sweep).symbol)
    /\ ev' = Event("hold")
    /\ UNCHANGED calc
    /\ UNCHANGED << tp, price, is_running, portfolio_value, positions,
                    total_risk, stopVars, drainHist, cycle_held >>

\* lines 206-209: the price arrives and the exit condition does not hold
SweepHolds ==
    /\ pc = "price"
    /\ \E p \in Prices : ~check_exit_conditions(Head(sweep), p)
    /\ Goto(SweepFrom(i, Tail(sweep), active_trades))
    /\ swept' = Evaluated(Head(sweep).symbol)
    /\ ev' = Event("hold")
    /\ UNCHANGED calc
    /\ UNCHANGED << tp, price, is_running, portfolio_value, ledger, stopVars,
                    drainHist, cycle_held >>

\* lines 206-210 and 228-241: the exit condition holds, the close is sent
SweepRequestsClose ==
    /\ pc = "price"
    /\ \E p \in Prices :
          /\ check_exit_conditions(Head(sweep), p)
          /\ price' = p
    /\ pc' = "close"
    /\ swept' = Evaluated(Head(sweep).symbol)
    /\ ev' = Event("close_req")
    /\ UNCHANGED calc
    /\ UNCHANGED << i, opps, tp, sweep, is_running, portfolio_value, ledger,
                    stopVars, drainHist, cycle_held >>

\* lines 243-253: the gateway acknowledged the close
SweepCloseAck ==
    /\ pc = "close"
    /\ "ack" \in GatewayOutcomes
    /\ LET r == close_position_ack(Head(sweep), active_trades, positions, total_risk) IN
          /\ active_trades' = r.active_trades
          /\ positions' = r.positions
          /\ total_risk' = r.total_risk
          /\ Goto(SweepFrom(i, Tail(sweep), r.active_trades))
    /\ price' = 0
    /\ ev' = Event("close_ack")
    /\ UNCHANGED calc
    /\ UNCHANGED << tp, is_running, portfolio_value, stopVars, drainHist,
                    cycleHist >>

\* close_position dropping the position before the gateway answered
SweepCloseFailsDrops ==
    /\ pc = "close"
    /\ "fail" \in GatewayOutcomes
    /\ LET r == close_position_ack(Head(sweep), active_trades, positions, total_risk) IN
          /\ active_trades' = r.active_trades
          /\ positions' = r.positions
          /\ total_risk' = r.total_risk
          /\ Goto(SweepFrom(i, Tail(sweep), r.active_trades))
    /\ price' = 0
    /\ ev' = Event("close_fail")
    /\ UNCHANGED calc
    /\ UNCHANGED << tp, is_running, portfolio_value, stopVars, drainHist,
                    cycleHist >>

\* lines 231/237 raise; 255-256 catch it
SweepCloseFails ==
    /\ pc = "close"
    /\ "fail" \in GatewayOutcomes
    /\ Goto(SweepFrom(i, Tail(sweep), active_trades))
    /\ price' = 0
    /\ ev' = Event("close_fail")
    /\ UNCHANGED calc
    /\ UNCHANGED << tp, is_running, portfolio_value, ledger, stopVars,
                    drainHist, cycleHist >>

\* lines 39/42 and 36: the sleep ends and the while test runs
Wake ==
    /\ pc = "sleep"
    /\ Goto(WhileTop(is_running, active_trades))
    /\ IF is_running THEN CycleBegins(active_trades) ELSE UNCHANGED cycleHist
    /\ ev' = Event("wake")
    /\ UNCHANGED calc
    /\ UNCHANGED << tp, price, is_running, portfolio_value, ledger, stopVars,
                    drainHist >>

----------------------------------------------------------------------------
(* The shutdown coroutine *)

\* the scheduler is suspended at an await (it has been started and is not
\* between two opportunities)
LoopSuspended == pc \in {"analyze", "open", "price", "close", "sleep"}

\* stop, lines 267-272, up to the first await
StopBegins ==
    /\ spc = "none"
    /\ is_running' = FALSE
    /\ ssweep' = active_trades
    /\ spc' = IF active_trades = << >> THEN "done" ELSE "price"
    /\ drain' = IF active_trades = << >> THEN "empty" ELSE "clean"
    /\ ev' = Event("stop")
    /\ UNCHANGED calc
    /\ UNCHANGED << portfolio_value, ledger, cycleHist >>

\* stop is awaited by another task while the scheduler is suspended
Stop ==
    /\ LoopSuspended
    /\ StopBegins
    /\ UNCHANGED << pc, loopLocals >>

\* lines 280-283: KeyboardInterrupt ends asyncio.run(bot.start(...)), which
\* cancels the scheduler at its await, and stop runs in a new event loop
StopAfterInterrupt ==
    /\ LoopSuspended
    /\ StopBegins
    /\ pc' = "cancelled"
    /\ i' = 0
    /\ opps' = << >>
    /\ tp' = << >>
    /\ sweep' = << >>
    /\ price' = 0

\* the drain goes on with the rest of the snapshot
DrainFrom(rest) ==
    /\ ssweep' = rest
    /\ spc' = IF rest = << >> THEN "done" ELSE "price"

\* line 272 raises: nothing in stop catches it, stop ends with the exception
DrainPriceFails ==
    /\ spc = "price"
    /\ pc # "opps"
    /\ spc' = "failed"
    /\ ssweep' = Tail(ssweep)
    /\ drain' = "failed"
    /\ ev' = Event("drain_price_fail")
    /\ UNCHANGED calc
    /\ UNCHANGED << pc, loopLocals, is_running, portfolio_value, ledger,
                    cycleHist >>

\* lines 272-273 and 228-241: the price arrives and the close is sent (the
\* price goes to the gateway and the P&L log only, the model does not keep it)
DrainRequestsClose ==
    /\ spc = "price"
    /\ pc # "opps"
    /\ spc' = "close"
    /\ ev' = Event("drain_close_req")
    /\ UNCHANGED calc
    /\ UNCHANGED << pc, loopLocals, ssweep, is_running, portfolio_value, ledger,
                    drainHist, cycleHist >>

\* lines 243-253: the gateway acknowledged the close
DrainCloseAck ==
    /\ spc = "close"
    /\ pc # "opps"
    /\ "ack" \in GatewayOutcomes
    /\ LET r == close_position_ack(Head(ssweep), active_trades, positions, total_risk) IN
          /\ active_trades' = r.active_trades
          /\ positions' = r.positions
          /\ total_risk' = r.total_risk
    /\ DrainFrom(Tail(ssweep))
    /\ ev' = Event("drain_close_ack")
    /\ UNCHANGED calc
    /\ UNCHANGED << pc, loopLocals, is_running, portfolio_value, drainHist,
                    cycleHist >>

\* lines 231/237 raise; 255-256 catch it and the drain goes on
DrainCloseFails ==
    /\ spc = "close"
    /\ pc # "opps"
    /\ "fail" \in GatewayOutcomes
    /\ DrainFrom(Tail(ssweep))
    /\ drain' = "failed"
    /\ ev' = Event("drain_close_fail")
    /\ UNCHANGED calc
    /\ UNCHANGED << pc, loopLocals, is_running, portfolio_value, ledger,
                    cycleHist >>

----------------------------------------------------------------------------

Next ==
    \/ Start
    \/ AnalysisFails
    \/ IdentifyRaises
    \/ AnalysisReturns
    \/ RejectOpportunity
    \/ ValidatePrepareRaises
    \/ ExecutePrepareRaises
    \/ RequestOpen
    \/ GatewayOpenAck
    \/ GatewayOpenFails
    \/ SweepPriceFails
    \/ SweepHolds
    \/ SweepRequestsClose
    \/ SweepCloseAck
    \/ SweepCloseFails
    \/ Wake
    \/ Stop
    \/ StopAfterInterrupt
    \/ DrainPriceFails
    \/ DrainRequestsClose
    \/ DrainCloseAck
    \/ DrainCloseFails

Spec == Init /\ [][Next]_vars

\* The engine with collaborators that never fail and no stop requested: the
\* analyses return, prepare_trade_parameters delivers, the gateway
\* acknowledges and every price fetch returns.  The event loop resumes a
\* coroutine whose await is over, so the scheduler always takes its next
\* step.
LiveNext ==
    \/ Start
    \/ AnalysisReturns
    \/ RejectOpportunity
    \/ RequestOpen
    \/ GatewayOpenAck
    \/ SweepHolds
    \/ SweepRequestsClose
    \/ SweepCloseAck
    \/ Wake

LiveSpec == Init /\ [][LiveNext]_vars /\ WF_vars(LiveNext)

----------------------------------------------------------------------------
(* The pure functions of RiskManager and TradingBot called on their own, as *)
(* the tests call them: calc records the arguments and what the function    *)
(* returned.  A price of 1000 ticks stands for 100.0 where the tick is a    *)
(* tenth.                                                                   *)

CalcEntries == {1000, 10000, 50000}
CalcExits == {48000, 50000, 52000}
CalcVols == {5, 10, 20, 30, 35}
CalcSizes == {50, 100, 3000}
HeldSizes == {70, 120}
CalcPortfolios == {1, 100000}
CalcRisks == {0, 59500}

\* the trade dict validate_trade reads: symbol, position_size, entry_price,
\* stop_loss
CalcTrade(symbol, size) ==
    [symbol |-> symbol, position_size |-> size,
     entry_price |-> 10000, stop_loss |-> 9800]

\* current_positions, at most two positions of different symbols
CalcLedgers ==
    {<< >>}
      \cup {<< CalcTrade(s, z) >> : s \in Symbols, z \in HeldSizes}
      \cup {<< CalcTrade(ss[1], z1), CalcTrade(ss[2], z2) >> :
               ss \in {x \in Symbols \X Symbols : x[1] # x[2]},
               z1 \in HeldSizes, z2 \in HeldSizes}

\* RiskManager.positions holding the positions of the dict d
PositionsOf(d) == [s \in Keys(d) |-> DictGet(d, s)]

CalcPnl ==
    /\ calc = NoCall
    /\ \E e \in CalcEntries, x \in CalcExits, d \in Directions, z \in CalcSizes :
          LET position == [direction |-> d, entry_price |-> e, position_size |-> z]
          IN  calc' = [op |-> "pnl", position |-> position, exit_price |-> x,
                       result |-> calculate_pnl(position, x)]
    /\ UNCHANGED engine

CalcStopLoss ==
    /\ calc = NoCall
    /\ \E e \in CalcEntries, d \in Directions, v \in CalcVols :
          calc' = [op |-> "stop_loss", entry_price |-> e, direction |-> d,
                   volatility |-> v, result |-> calculate_stop_loss(e, d, v)]
    /\ UNCHANGED engine

CalcTakeProfit ==
    /\ calc = NoCall
    /\ \E e \in CalcEntries, d \in Directions, v \in CalcVols :
          calc' = [op |-> "take_profit", entry_price |-> e, direction |-> d,
                   volatility |-> v, result |-> calculate_take_profit(e, d, v)]
    /\ UNCHANGED engine

CalcValidate ==
    /\ calc = NoCall
    /\ \E s \in Symbols, z \in CalcSizes, d \in CalcLedgers,
          pv \in CalcPortfolios, risk \in CalcRisks :
          LET trade == CalcTrade(s, z)
              ps == PositionsOf(d)
          IN  calc' = [op |-> "validate", trade |-> trade,
                       portfolio_value |-> pv, current_positions |-> d,
                       total_risk |-> risk,
                       correlation |-> check_position_correlation(trade, d),
                       exposure |-> check_max_exposure(trade, pv, ps),
                       result |-> validate_trade(trade, pv, d, ps, risk)]
    /\ UNCHANGED engine

CalcCapitals == {0, 1000, 100000}
CalcStops == {8000, 9800, 9995, 10000, 10200}
SizingVols == {20, 30, 35}

\* the call of the test, test_trading_bot.py:66-71: four arguments
CalcPositionSize ==
    /\ calc = NoCall
    /\ \E c \in CalcCapitals, s \in CalcStops, v \in SizingVols :
          calc' = [op |-> "position_size", capital |-> c, entry_price |-> 10000,
                   stop_loss |-> s, volatility |-> v,
                   result |-> call_calculate_position_size(<< c, 10000, s, v >>)]
    /\ UNCHANGED engine

\* the call of prepare_trade_parameters, lines 172-176: portfolio_value,
\* entry_price and the volatility; the stop loss is computed after it (179)
CalcPrepareSize ==
    /\ calc = NoCall
    /\ \E c \in CalcCapitals, d \in Directions, v \in SizingVols :
          calc' = [op |-> "prepare_size", capital |-> c, entry_price |-> 10000,
                   stop_loss |-> calculate_stop_loss(10000, d, v),
                   volatility |-> v,
                   result |-> call_calculate_position_size(<< c, 10000, v >>)]
    /\ UNCHANGED engine

\* candidate lists of up to two spreads for each category
CalcOptionsPayloads ==
    [1..Len(Categories) ->
        UNION {[1..n -> {"empty", "spread"}] : n \in 0..2}]

\* identify_opportunities called with the payloads of one symbol: line 75
\* reads ['signals']['entry'], a KeyError when the key is absent
CalcIdentify ==
    /\ calc = NoCall
    /\ \E sym \in Symbols :
          \E t \in TechnicalPayloads(sym), o \in CalcOptionsPayloads :
             calc' = [op |-> "identify", technical |-> t, options |-> o,
                      result |-> IF t.entry = "missing" THEN Raises("KeyError")
                                 ELSE Returns(identify_opportunities(t, o))]
    /\ UNCHANGED engine

\* validate_technical_trade called on its own, with the opportunity built
\* from an analysis (strength, entry and overall trend) and q the trade
\* parameters its prepare_trade_parameters call delivered
CalcValidateTechnical ==
    /\ calc = NoCall
    /\ \E t \in TechnicalPayloads(BTCUSDT), z \in CalcSizes, d \in CalcLedgers,
          risk \in CalcRisks :
          LET opp == TechnicalOpp(t)
              q == CalcTrade(opp.symbol, z)
              ps == PositionsOf(d)
          IN  /\ t.entry \in Directions
              /\ calc' = [op |-> "validate_technical", opportunity |-> opp,
                          trade |-> q, current_positions |-> d,
                          total_risk |-> risk,
                          risk_checks |-> validate_trade(q, InitialPortfolio, d,
                                                         ps, risk),
                          result |-> validate_technical_trade(
                                         opp, q, InitialPortfolio, d, ps, risk)]
    /\ UNCHANGED engine

\* the call is over
CalcReturn ==
    /\ calc # NoCall
    /\ calc' = NoCall
    /\ UNCHANGED engine

CalcNext ==
    \/ CalcPnl
    \/ CalcStopLoss
    \/ CalcTakeProfit
    \/ CalcValidate
    \/ CalcPositionSize
    \/ CalcPrepareSize
    \/ CalcIdentify
    \/ CalcValidateTechnical
    \/ CalcReturn

CalcSpec == Init /\ [][CalcNext]_vars

----------------------------------------------------------------------------
(* Properties *)

\* C1: in every state in which a coroutine is suspended or between two
\* steps, total_risk is the sum of calculate_trade_risk over the positions
\* held, in RiskManager.positions and in active_trades alike.
RiskAccounting ==
    /\ total_risk = SumRisk(positions, DOMAIN positions)
    /\ total_risk = SumRiskTrades(active_trades)

\* a close has been applied and a position with its risk is still held
RiskAccountingWitness ==
    /\ ev \in {"close_ack", "drain_close_ack"}
    /\ active_trades # << >>
    /\ total_risk > 0

OnePositionPerSymbol ==
    /\ pc = "open" =>
          /\ tp[1].symbol \notin Keys(active_trades)
          /\ tp[1].symbol \notin DOMAIN positions
    /\ \A j, k \in 1..Len(active_trades) :
          active_trades[j].symbol = active_trades[k].symbol => j = k

\* the technical open of a symbol has been applied and an options
\* opportunity of the same symbol and cycle comes next
OnePositionPerSymbolWitness ==
    /\ pc = "opps"
    /\ ev = "open_ack"
    /\ Head(opps).type = "options"
    /\ Head(opps).symbol \in Keys(active_trades)
    /\ DictGet(active_trades, Head(opps).symbol).type = "technical"

\* C4: the ledger never holds more than MAX_CONCURRENT_TRADES positions, and
\* no open is with the gateway while it holds MAX_CONCURRENT_TRADES.
ConcurrencyCap ==
    /\ Len(active_trades) <= MAX_CONCURRENT_TRADES
    /\ Cardinality(DOMAIN positions) <= MAX_CONCURRENT_TRADES
    /\ pc = "open" => Len(active_trades) < MAX_CONCURRENT_TRADES

\* a cycle began with the ledger at the cap and has ended
ConcurrencyCapWitness ==
    /\ ev = "wake"
    /\ pc = "sleep"
    /\ Len(active_trades) = MAX_CONCURRENT_TRADES
    /\ cycle_held = Keys(active_trades)

\* C5: when a cycle that began with MAX_CONCURRENT_TRADES positions has
\* ended, the exit condition of each of them has been evaluated in it.
SweepAtCap == (pc = "sleep" /\ cycle_held # {}) => cycle_held \subseteq swept

DrainIsolatesFailures == spc \in {"done", "failed"} => ssweep = << >>

\* C9: a step in which an open fails (the gateway raises, or
\* prepare_trade_parameters raises in execute_trade) changes neither
\* active_trades, RiskManager.positions nor total_risk, and the symbol is in
\* neither ledger after it.
FailedOpenNoTrace ==
    [][ (pc \in {"opps", "open"} /\ ev' \in {"open_fail", "prepare_fail"}) =>
           LET symbol == IF pc = "open" THEN tp[1].symbol ELSE Head(opps).symbol
           IN  /\ UNCHANGED ledger
               /\ symbol \notin Keys(active_trades')
               /\ symbol \notin DOMAIN positions'
      ]_vars

\* the gateway has refused an open while a position with its risk is held
FailedOpenNoTraceWitness ==
    /\ ev = "open_fail"
    /\ active_trades # << >>
    /\ total_risk > 0

\* C10: a step in which the gateway refuses a close changes neither
\* active_trades, RiskManager.positions nor total_risk; a symbol leaves
\* either ledger only in a step in which the gateway acknowledged a close of
\* that symbol; and every management sweep starts from all the positions
\* then held.
FailedCloseKeepsPosition ==
    [][ /\ (pc = "close" /\ ev' = "close_fail") => UNCHANGED ledger
        /\ (spc = "close" /\ ev' = "drain_close_fail") => UNCHANGED ledger
        /\ \A s \in Symbols :
              (\/ s \in Keys(active_trades) /\ s \notin Keys(active_trades')
               \/ s \in DOMAIN positions /\ s \notin DOMAIN positions')
              => \/ pc = "close" /\ ev' = "close_ack" /\ Head(sweep).symbol = s
                 \/ spc = "close" /\ ev' = "drain_close_ack" /\ Head(ssweep).symbol = s
        /\ (pc \in {"analyze", "opps", "open"} /\ pc' = "price")
              => sweep' = active_trades'
      ]_vars

\* the gateway has refused a close in a sweep, no stop is under way, and the
\* position is still held
FailedCloseKeepsPositionWitness ==
    /\ ev = "close_fail"
    /\ spc = "none"
    /\ active_trades # << >>
    /\ total_risk > 0

\* C11: an exception raised inside a cycle (by an analysis, by
\* identify_opportunities or by validate_opportunity) ends the cycle in the
\* sleep of start with is_running unchanged; the sleep of a running loop ends
\* in the next cycle; and the loop of start ends only once stop has been
\* requested and is_running is False.
LoopFailureNotFatal ==
    [][ /\ (pc \in {"analyze", "opps"}
              /\ ev' \in {"analysis_fail", "identify_raise", "validate_raise"})
           => (pc' = "sleep" /\ is_running' = is_running)
        /\ (pc = "sleep" /\ ev' = "wake" /\ is_running)
           => \/ pc' = "analyze" /\ i' = 1
              \/ pc' = "sleep" /\ Len(active_trades) >= MAX_CONCURRENT_TRADES
        /\ (pc' \in {"done", "cancelled"} /\ pc' # pc)
           => (spc' # "none" /\ ~is_running')
      ]_vars

\* an exception has ended a cycle with a position held, and the loop sleeps
\* with is_running still True
LoopFailureNotFatalWitness ==
    /\ ev \in {"analysis_fail", "identify_raise", "validate_raise"}
    /\ pc = "sleep"
    /\ is_running
    /\ active_trades # << >>

\* C12: a step of a sweep in which the price fetch of a position raises
\* changes neither active_trades, RiskManager.positions nor total_risk and
\* goes on with the next position of the sweep, if there is one; and every
\* position held when a sweep starts is in that sweep.
SweepPriceFailureIsolated ==
    [][ /\ (pc = "price" /\ ev' = "price_fail")
           => /\ UNCHANGED ledger
              /\ Tail(sweep) # << >> => (pc' = "price" /\ sweep' = Tail(sweep))
        /\ (pc \notin {"price", "close"} /\ pc' = "price")
           => Keys(active_trades') \subseteq Keys(sweep')
      ]_vars

\* the price fetch of one position has raised and the sweep is at the next one
SweepPriceFailureIsolatedWitness ==
    /\ ev = "price_fail"
    /\ pc = "price"
    /\ sweep # << >>
    /\ Len(active_trades) > Len(sweep)

\* C13: after the analysis of a symbol raised, with positions held, the
\* cycle goes on to its management sweep.
AnalysisFailureSkipsOnlySymbol ==
    (ev = "analysis_fail" /\ active_trades # << >>) => pc = "price"

RejectionNoSideEffect ==
    [][ (pc = "opps" /\ ev' = "reject")
           => (UNCHANGED ledger /\ pc' # "open" /\ tp' = << >>)
      ]_vars

\* an opportunity has been rejected while a position with its risk is held
RejectionNoSideEffectWitness ==
    /\ ev = "reject"
    /\ active_trades # << >>
    /\ total_risk > 0

PnlOnClose ==
    calc.op = "pnl" =>
        LET p == calc.position
            x == calc.exit_price
            other == [p EXCEPT !.direction =
                          IF p.direction = "long" THEN "short" ELSE "long"]
        IN  /\ p.direction = "long"
                  => calc.result = (x - p.entry_price) * p.position_size
            /\ p.direction = "short"
                  => calc.result = (p.entry_price - x) * p.position_size
            /\ calc.result = 0 - calculate_pnl(other, x)
            /\ (p.direction = "long" /\ p.entry_price = 50000
                  /\ p.position_size = 100 /\ x = 52000)
                  => calc.result = 200000

\* the P&L of a short that lost: entered at 50000, closed at 52000
PnlOnCloseWitness ==
    /\ calc.op = "pnl"
    /\ calc.position.direction = "short"
    /\ calc.position.entry_price = 50000
    /\ calc.exit_price = 52000
    /\ calc.result < 0

\* C16: validate_trade rejects a candidate when the sizes of the positions of
\* current_positions that share its base asset, together with its own size,
\* exceed 0.15.
CorrelatedExposureCeiling ==
    calc.op = "validate" =>
        LET d == calc.current_positions
            same_base ==
                SumSeq([k \in 1..Len(d) |->
                          IF d[k].symbol.base = calc.trade.symbol.base
                          THEN d[k].position_size ELSE 0])
        IN  same_base + calc.trade.position_size > 150 => ~calc.result

\* C17: the exposure check of validate_trade passes exactly when the
\* candidate's size plus the size of the position held in the same symbol is
\* at most MAX_POSITION_SIZE times the portfolio value.
PerAssetExposureLimit ==
    calc.op = "validate" =>
        LET d == calc.current_positions
            same_symbol ==
                SumSeq([k \in 1..Len(d) |->
                          IF d[k].symbol = calc.trade.symbol
                          THEN d[k].position_size ELSE 0])
        IN  calc.exposure <=>
               same_symbol + calc.trade.position_size
                   <= MAX_POSITION_SIZE * calc.portfolio_value

PositionSizing ==
    LET c == calc.capital
        price_risk == Abs(calc.entry_price - calc.stop_loss)
        \* capital * 0.02 / price risk in thousandths, the prices in hundredths
        plain == (c * 2000) \div price_risk
        damped == IF calc.volatility > 30 THEN (plain * 7) \div 10 ELSE plain
        ceiling == c * 200
        size == IF damped < ceiling THEN damped ELSE ceiling
    IN  (calc.op \in {"position_size", "prepare_size"} /\ price_risk > 0)
           => /\ calc.result.raised = "none"
              /\ calc.result.value = size
              /\ calc.result.value <= ceiling
              /\ c > 0 => calc.result.value > 0

\* C22: when the sizing inside validate_technical_trade raises (the division
\* by a zero price risk), the opportunity alone is dropped: with positions
\* held, the cycle goes on with the next opportunity or with its management
\* sweep.
ZeroPriceRiskRejects ==
    (ev = "validate_raise" /\ active_trades # << >>) => pc \in {"opps", "price"}

\* C23: for a technical payload with an entry, identify_opportunities
\* returns first one technical opportunity (direction the entry, the strength
\* copied) exactly when the entry is not 'none', then one options opportunity
\* for each non-empty candidate, category by category, each with its category
\* and the symbol of the payload.
SignalAggregation ==
    (calc.op = "identify" /\ calc.technical.entry # "missing") =>
        LET t == calc.technical
            o == calc.options
            r == calc.result.value
            tech == IF t.entry # "none" THEN 1 ELSE 0
            CategoryOf(k) == CHOOSE c \in 1..Len(Categories) :
                                 Categories[c] = r[k].strategy
        IN  /\ calc.result.raised = "none"
            /\ Len(r) = tech + SumSeq([c \in 1..Len(Categories) |-> Spreads(o[c])])
            /\ tech = 1 => /\ r[1].type = "technical"
                           /\ r[1].symbol = t.symbol
                           /\ r[1].direction = t.entry
                           /\ r[1].strength = t.strength
            /\ \A k \in (tech + 1)..Len(r) :
                  /\ r[k].type = "options"
                  /\ r[k].symbol = t.symbol
                  /\ \E c \in 1..Len(Categories) : Categories[c] = r[k].strategy
            /\ \A c \in 1..Len(Categories) :
                  Cardinality({k \in (tech + 1)..Len(r) :
                                  r[k].strategy = Categories[c]}) = Spreads(o[c])
            /\ \A j, k \in (tech + 1)..Len(r) :
                  j < k => CategoryOf(j) <= CategoryOf(k)

\* a technical opportunity followed by the options opportunities of two
\* categories, one of them with an empty candidate skipped
SignalAggregationWitness ==
    /\ calc.op = "identify"
    /\ calc.technical.entry = "short"
    /\ calc.options[1] = << "empty", "spread" >>
    /\ calc.options[3] = << "spread", "spread" >>
    /\ Len(calc.result.value) = 4

\* C24: identify_opportunities returns a list for every payload, the one
\* TechnicalStrategy builds (no 'entry' under 'signals') included, and an
\* empty list when there is no entry and no candidate.
AggregationNeverFails ==
    calc.op = "identify" =>
        /\ calc.result.raised = "none"
        /\ (calc.technical.entry = "none"
              /\ \A c \in 1..Len(Categories) : Spreads(calc.options[c]) = 0)
           => calc.result.value = << >>

\* C25: if from some point on no sweep finds the exit condition of a position
\* false (price fetches and closes succeeding, no stop requested), then a
\* symbol that is in the ledger is eventually out of it.
ExitEventuallyActedOn ==
    <>[](ev # "hold") =>
        \A s \in Symbols :
            (s \in Keys(active_trades)) ~> (s \notin Keys(active_trades))

CloseRequestedOnce ==
    /\ (ev = "close_req" /\ pc = "close")
           => Head(sweep).symbol \in Keys(active_trades)
    /\ (ev = "drain_close_req" /\ spc = "close")
           => Head(ssweep).symbol \in Keys(active_trades)
    /\ (pc = "close" /\ spc = "close") => Head(sweep) # Head(ssweep)

\* C29: wherever the coroutines are suspended, active_trades and the
\* positions of the risk manager hold the same symbols with the same trade
\* parameters, and total_risk is the risk of exactly those positions.
LedgersAgree ==
    /\ Keys(active_trades) = DOMAIN positions
    /\ \A s \in DOMAIN positions :
          /\ positions[s] = DictGet(active_trades, s)
          /\ calculate_trade_risk(positions[s]) <= total_risk
    /\ total_risk = SumRisk(positions, DOMAIN positions)

\* an open has been applied to both ledgers, next to a position already
\* held, while the drain of stop is suspended at an external call
LedgersAgreeWitness ==
    /\ ev = "open_ack"
    /\ spc \in {"price", "close"}
    /\ Cardinality(DOMAIN positions) = 2
    /\ Len(active_trades) = 2

\* C30: a call of trading_loop begins at its first symbol only from the
\* sleep of start (or from the start itself), with no opportunity, trade or
\* sweep of an earlier call pending; a call in progress never goes back to
\* an earlier symbol, and it ends only in the sleep of start or in the
\* cancellation of the loop.
CyclesNeverOverlap ==
    [][ LET InCycle == {"analyze", "opps", "open", "price", "close"} IN
        /\ (pc' = "analyze" /\ i' = 1 /\ ~(pc = "analyze" /\ i = 1))
           => /\ pc \in {"idle", "sleep"}
              /\ opps = << >> /\ tp = << >> /\ sweep = << >>
        /\ (pc \in InCycle /\ pc' \in InCycle) => i' >= i
        /\ (pc \in InCycle /\ pc' \notin InCycle)
           => pc' \in {"sleep", "cancelled"}
      ]_vars

\* a second call of trading_loop has begun after a call that opened a
\* position and swept it
CyclesNeverOverlapWitness ==
    /\ ev = "wake"
    /\ pc = "analyze"
    /\ i = 1
    /\ active_trades # << >>

\* C31: a position that is in the ledger before and after a step has the
\* same trade parameters (entry_price, stop_loss, take_profit, position_size,
\* direction) after it, in active_trades and in the positions of the risk
\* manager alike.
PositionsFrozen ==
    [][ /\ \A s \in Keys(active_trades) \cap Keys(active_trades') :
              DictGet(active_trades', s) = DictGet(active_trades, s)
        /\ \A s \in DOMAIN positions \cap DOMAIN positions' :
              positions'[s] = positions[s]
      ]_vars

\* the close of one of two held positions has failed in a sweep that
\* already held or closed nothing else, and both are still in the ledger
PositionsFrozenWitness ==
    /\ ev = "close_fail"
    /\ Len(active_trades) = 2
    /\ \A k \in 1..Len(active_trades) :
          positions[active_trades[k].symbol] = active_trades[k]

\* C32: validate_technical_trade returns False for an opportunity that is
\* not strong or whose direction the overall trend contradicts, and returns
\* True for a strong long opportunity under a bullish overall trend whose
\* trade parameters pass the risk checks.
TechnicalGating ==
    LET opp == calc.opportunity
        agrees == \/ opp.direction = "long" /\ opp.overall \in {"bullish", "long"}
                  \/ opp.direction = "short" /\ opp.overall \in {"bearish", "short"}
    IN  calc.op = "validate_technical"
          => /\ (opp.strength # "strong" \/ ~agrees) => ~calc.result
             /\ calc.result => calc.risk_checks
             /\ (opp.strength = "strong" /\ opp.direction = "long"
                   /\ opp.overall = "bullish" /\ calc.risk_checks)
                => calc.result

=============================================================================
